---- MODULE Spec2Model ----
(***************************************************************************)
(* Model of src/src/decorators/JWTDynamic.ts: the OTP lifecycle service    *)
(* (OtpService: createOTP, updateOTP, validateOTP, removeOTP) over the     *)
(* login repository, and the dynamic-token guard                           *)
(* (AuthenticationJWTDynamic.canActivate).                                 *)
(*                                                                         *)
(* Every handler is one action: it runs from its first statement to its    *)
(* return or throw, which is what a sequential caller observes.            *)
(***************************************************************************)
EXTENDS Integers, Sequences, FiniteSets, TLC

\* ---------------------------------------------------------------- bounds
NumSecrets == 3      \* distinct values generateSecret() can produce
NumCodes == 4        \* distinct one-time codes
MaxTime == 2         \* last time step the clock reaches

\* ------------------------------------------------------------ value sets
Null == 0
Secrets == 1..NumSecrets
Codes == 0..(NumCodes - 1)
Times == 0..MaxTime
LoginIds == {"u1", "u2"}
Steps == {"reset", "signup"}
Pins == {"4321", "0000"}

LOGIN_NOT_FOUND == "LOGIN_NOT_FOUND"
LOGIN_ALREADY_HAS_OTP == "LOGIN_ALREADY_HAS_OTP"
TOKEN_OTP_INVALID == "TOKEN_OTP_INVALID"
NoError == "null"

appName == "app"

VARIABLES
  store,        \* the login repository: id -> LoginEntity, for the ids that exist
  clock,        \* current time step of the TOTP algorithm
  otplibThrows, \* whether this build's authenticator.check faults on a null secret
  last,         \* the call that ran last: operation, arguments, outcome, store before
  created,      \* id -> secret returned by the last successful createOTP, Null after a successful updateOTP
  rotated,      \* id -> <<>> or <<[old, new]>> of the last successful updateOTP
  request,      \* the HTTP request in flight: its policy, headers, attached payload, outcome
  calls         \* caller -> its createOTP / updateOTP call in progress, suspended at an await

vars == <<store, clock, otplibThrows, last, created, rotated, request, calls>>

\* ------------------------------------------------------------ repository
LoginEntity(id, secret) == [id |-> id, email |-> id \o "@mail", otpToken |-> secret]

NullLogin == [isNull |-> TRUE]

\* repository.findOne({ where: { id } }): the entity or null
findOne(s, loginId) == IF loginId \in DOMAIN s THEN s[loginId] ELSE NullLogin

\* repository.save(login): writes the entity under its id
save(s, login) == [i \in DOMAIN s \cup {login.id} |-> IF i = login.id THEN login ELSE s[i]]

\* -------------------------------------------------------------- otplib
\* the code the authenticator application shows for a secret at a time step
\* (a short code: two secrets can share a code at a time step)
totp(secret, t) == (secret * secret + secret * t) % NumCodes

\* authenticator.check(token, secret) at time step t. The callers pass the
\* stored otpToken as it is: for a null secret the library either answers
\* false or faults while decoding it, depending on the build (lib).
check(token, secret, t, lib) ==
  IF secret = Null
    THEN [threw |-> lib, valid |-> FALSE]
    ELSE [threw |-> FALSE, valid |-> token = totp(secret, t)]

\* authenticator.keyuri(accountName, issuer, secret)
keyuri(email, issuer, secret) == <<email, issuer, secret>>

\* ------------------------------------------------------------- outcomes
NullValue == [tag |-> "null"]
BoolValue(b) == [tag |-> "boolean", b |-> b]
SecretAndKeyUri(secret, uri) == [tag |-> "SecretAndKeyUri", secret |-> secret, keyUri |-> uri]

Return(value, error) == [kind |-> "return", value |-> value, error |-> error]
Throw(name, message) == [kind |-> "throw", name |-> name, message |-> message]

NullDeref == Throw("TypeError", "Cannot read properties of null (reading 'otpToken')")
OtplibFault == Throw("TypeError", "otplib: secret is null")

\* what a service call yields: its outcome and the repository afterwards
Done(out, s) == [out |-> out, store |-> s]

\* -------------------------------------------------------------- OtpService
\* generateSecret() is random: fresh is the value it produces in this call.

\* createOTP without the otpToken != null test of line 134
createOTP_Overwrite(s, loginId, fresh) ==
  LET login == findOne(s, loginId) IN
  IF login = NullLogin THEN Done(Return(NullValue, LOGIN_NOT_FOUND), s)
  ELSE LET saved == [login EXCEPT !.otpToken = fresh]
           uri == keyuri(saved.email, appName, saved.otpToken)
       IN Done(Return(SecretAndKeyUri(saved.otpToken, uri), NoError), save(s, saved))

\* createOTP without the save of line 137
createOTP_NoSave(s, loginId, fresh) ==
  LET login == findOne(s, loginId) IN
  IF login = NullLogin THEN Done(Return(NullValue, LOGIN_NOT_FOUND), s)
  ELSE IF login.otpToken # Null THEN Done(Return(NullValue, LOGIN_ALREADY_HAS_OTP), s)
  ELSE LET saved == [login EXCEPT !.otpToken = fresh]
           uri == keyuri(saved.email, appName, saved.otpToken)
       IN Done(Return(SecretAndKeyUri(saved.otpToken, uri), NoError), s)

createOTP(s, loginId, fresh) ==
  LET login == findOne(s, loginId) IN
  IF login = NullLogin THEN Done(Return(NullValue, LOGIN_NOT_FOUND), s)
  ELSE IF login.otpToken # Null THEN Done(Return(NullValue, LOGIN_ALREADY_HAS_OTP), s)
  ELSE LET saved == [login EXCEPT !.otpToken = fresh]
           uri == keyuri(saved.email, appName, saved.otpToken)
       IN Done(Return(SecretAndKeyUri(saved.otpToken, uri), NoError), save(s, saved))

\* updateOTP without the save of line 159
updateOTP_NoSave(s, loginId, token, t, lib, fresh) ==
  LET login == findOne(s, loginId) IN
  IF login = NullLogin THEN Done(Return(NullValue, LOGIN_NOT_FOUND), s)
  ELSE LET tokenIsValid == check(token, login.otpToken, t, lib) IN
    IF tokenIsValid.threw THEN Done(OtplibFault, s)
    ELSE IF ~tokenIsValid.valid THEN Done(Return(NullValue, TOKEN_OTP_INVALID), s)
    ELSE LET saved == [login EXCEPT !.otpToken = fresh]
             uri == keyuri(saved.email, appName, saved.otpToken)
         IN Done(Return(SecretAndKeyUri(saved.otpToken, uri), NoError), s)

updateOTP(s, loginId, token, t, lib, fresh) ==
  LET login == findOne(s, loginId) IN
  IF login = NullLogin THEN Done(Return(NullValue, LOGIN_NOT_FOUND), s)
  ELSE LET tokenIsValid == check(token, login.otpToken, t, lib) IN
    IF tokenIsValid.threw THEN Done(OtplibFault, s)
    ELSE IF ~tokenIsValid.valid THEN Done(Return(NullValue, TOKEN_OTP_INVALID), s)
    ELSE LET saved == [login EXCEPT !.otpToken = fresh]
             uri == keyuri(saved.email, appName, saved.otpToken)
         IN Done(Return(SecretAndKeyUri(saved.otpToken, uri), NoError), save(s, saved))

\* createOTP from the point where findOne has resolved to login (lines 132-142)
createOTPAfterFind(s, login, fresh) ==
  IF login = NullLogin THEN Done(Return(NullValue, LOGIN_NOT_FOUND), s)
  ELSE IF login.otpToken # Null THEN Done(Return(NullValue, LOGIN_ALREADY_HAS_OTP), s)
  ELSE LET saved == [login EXCEPT !.otpToken = fresh]
           uri == keyuri(saved.email, appName, saved.otpToken)
       IN Done(Return(SecretAndKeyUri(saved.otpToken, uri), NoError), save(s, saved))

\* an updateOTP whose save is refused when the stored secret is no longer the one read
updateOTPAfterFind_Versioned(s, login, token, t, lib, fresh) ==
  IF login = NullLogin THEN Done(Return(NullValue, LOGIN_NOT_FOUND), s)
  ELSE LET tokenIsValid == check(token, login.otpToken, t, lib) IN
    IF tokenIsValid.threw THEN Done(OtplibFault, s)
    ELSE IF ~tokenIsValid.valid THEN Done(Return(NullValue, TOKEN_OTP_INVALID), s)
    ELSE IF findOne(s, login.id) # login THEN Done(Return(NullValue, TOKEN_OTP_INVALID), s)
    ELSE LET saved == [login EXCEPT !.otpToken = fresh]
             uri == keyuri(saved.email, appName, saved.otpToken)
         IN Done(Return(SecretAndKeyUri(saved.otpToken, uri), NoError), save(s, saved))

\* updateOTP from the point where findOne has resolved to login (lines 153-164)
updateOTPAfterFind(s, login, token, t, lib, fresh) ==
  IF login = NullLogin THEN Done(Return(NullValue, LOGIN_NOT_FOUND), s)
  ELSE LET tokenIsValid == check(token, login.otpToken, t, lib) IN
    IF tokenIsValid.threw THEN Done(OtplibFault, s)
    ELSE IF ~tokenIsValid.valid THEN Done(Return(NullValue, TOKEN_OTP_INVALID), s)
    ELSE LET saved == [login EXCEPT !.otpToken = fresh]
             uri == keyuri(saved.email, appName, saved.otpToken)
         IN Done(Return(SecretAndKeyUri(saved.otpToken, uri), NoError), save(s, saved))

\* a validateOTP that rotates the secret when the code was valid
validateOTP_RotateOnUse(s, loginId, token, t, lib) ==
  LET login == findOne(s, loginId) IN
  IF login = NullLogin THEN Done(NullDeref, s)
  ELSE LET tokenIsValid == check(token, login.otpToken, t, lib) IN
    IF tokenIsValid.threw THEN Done(OtplibFault, s)
    ELSE IF ~tokenIsValid.valid THEN Done(Return(BoolValue(FALSE), NoError), s)
    ELSE Done(Return(BoolValue(TRUE), NoError),
              save(s, [login EXCEPT !.otpToken = (login.otpToken % NumSecrets) + 1]))

\* line 175 evaluates [null, LOGIN_NOT_FOUND] and drops it: a null login goes
\* on to login.otpToken, which faults.
validateOTP(s, loginId, token, t, lib) ==
  LET login == findOne(s, loginId) IN
  IF login = NullLogin THEN Done(NullDeref, s)
  ELSE LET tokenIsValid == check(token, login.otpToken, t, lib) IN
    IF tokenIsValid.threw THEN Done(OtplibFault, s)
    ELSE Done(Return(BoolValue(tokenIsValid.valid), NoError), s)

\* line 190 drops its tuple as line 175 does; no statement writes the login.
removeOTP(s, loginId, token, t, lib) ==
  LET login == findOne(s, loginId) IN
  IF login = NullLogin THEN Done(NullDeref, s)
  ELSE LET tokenIsValid == check(token, login.otpToken, t, lib) IN
    IF tokenIsValid.threw THEN Done(OtplibFault, s)
    ELSE IF ~tokenIsValid.valid THEN Done(Return(NullValue, TOKEN_OTP_INVALID), s)
    ELSE Done(Return(BoolValue(TRUE), NoError), s)

\* ------------------------------------------------- collaborators of the guard
secondarySecret == "secondary"
SigningKeys == {secondarySecret, "other"}

\* a header that was not sent (or is empty) reads as a falsy value
NoHeader == <<>>
Header(v) == <<v>>
Given(h) == h # NoHeader

DynamicPayload(type, id, pin) == [type |-> type, id |-> id, pin |-> pin]
Malformed == [wellFormed |-> FALSE, key |-> "none", payload |-> <<>>]
SignedToken(key, payload) == [wellFormed |-> TRUE, key |-> key, payload |-> <<payload>>]

\* BearerTokenProcessor: structural check, signature check, decoded payload
isBearerToken(token) == token.wellFormed
isSignatureValid(token, secret) == token.wellFormed /\ token.key = secret
payloadType(token) == IF token.payload = <<>> THEN "undefined" ELSE token.payload[1].type

\* AuthenticationService.validatePin(pin, plainPin)
validatePin(pin, plainPin) == pin = plainPin

\* ------------------------------------------------- AuthenticationJWTDynamic
UNAUTHORIZED == 401
NotAuthorized == "Not authorized for perform action"

\* how a step of the try block ended, and the repository it left
Passed(trace, s) == [threw |-> FALSE, message |-> "", trace |-> trace, store |-> s]
Raised(message, trace, s) == [threw |-> TRUE, message |-> message, trace |-> trace, store |-> s]

validateOtpToken(s, loginId, otp, t, lib, trace) ==
  LET v == validateOTP(s, loginId, otp, t, lib)
      r == v.out
      called == Append(trace, "validateOTP")
  IN IF r.kind = "throw" THEN Raised(r.message, called, v.store)
     ELSE IF ~r.value.b THEN Raised("Invalid otp pin", called, v.store)
     ELSE Passed(Append(called, "otp ok"), v.store)

validateEmailToken(pin, plainPin, s, trace) ==
  LET called == Append(trace, "validatePin") IN
  IF ~validatePin(pin, plainPin) THEN Raised("Invalid email pin", called, s)
  ELSE Passed(Append(called, "email ok"), s)

\* the switch with an ONLY_OTP case that also validates an email pin that was sent
pinPolicy_OtpAlsoEmail(requiredPin, payload, pin, otp, s, t, lib, trace) ==
  CASE requiredPin = "ONLY_EMAIL" ->
         IF ~Given(pin) THEN Raised("No email pin given", trace, s)
         ELSE validateEmailToken(payload.pin, pin[1], s, trace)
    [] requiredPin = "ONLY_OTP" ->
         IF ~Given(otp) THEN Raised("No otp pin given", trace, s)
         ELSE LET email == IF Given(pin) THEN validateEmailToken(payload.pin, pin[1], s, trace)
                           ELSE Passed(trace, s)
              IN IF email.threw THEN email
                 ELSE validateOtpToken(email.store, payload.id, otp[1], t, lib, email.trace)
    [] requiredPin = "ANY" ->
         IF ~Given(pin) /\ ~Given(otp) THEN Raised("No pin specified", trace, s)
         ELSE LET email == IF Given(pin) THEN validateEmailToken(payload.pin, pin[1], s, trace)
                           ELSE Passed(trace, s)
              IN IF email.threw THEN email
                 ELSE IF Given(otp) THEN validateOtpToken(email.store, payload.id, otp[1], t, lib, email.trace)
                 ELSE email
    [] OTHER -> Passed(trace, s)

\* the switch with an ONLY_EMAIL case that also validates an OTP that was sent
pinPolicy_EmailAlsoOtp(requiredPin, payload, pin, otp, s, t, lib, trace) ==
  CASE requiredPin = "ONLY_EMAIL" ->
         IF ~Given(pin) THEN Raised("No email pin given", trace, s)
         ELSE LET email == validateEmailToken(payload.pin, pin[1], s, trace)
              IN IF email.threw THEN email
                 ELSE IF Given(otp) THEN validateOtpToken(email.store, payload.id, otp[1], t, lib, email.trace)
                 ELSE email
    [] requiredPin = "ONLY_OTP" ->
         IF ~Given(otp) THEN Raised("No otp pin given", trace, s)
         ELSE validateOtpToken(s, payload.id, otp[1], t, lib, trace)
    [] requiredPin = "ANY" ->
         IF ~Given(pin) /\ ~Given(otp) THEN Raised("No pin specified", trace, s)
         ELSE LET email == IF Given(pin) THEN validateEmailToken(payload.pin, pin[1], s, trace)
                           ELSE Passed(trace, s)
              IN IF email.threw THEN email
                 ELSE IF Given(otp) THEN validateOtpToken(email.store, payload.id, otp[1], t, lib, email.trace)
                 ELSE email
    [] OTHER -> Passed(trace, s)

\* the switch with an ANY case that is satisfied by the first proof that validates
pinPolicy_FirstProof(requiredPin, payload, pin, otp, s, t, lib, trace) ==
  CASE requiredPin = "ONLY_EMAIL" ->
         IF ~Given(pin) THEN Raised("No email pin given", trace, s)
         ELSE validateEmailToken(payload.pin, pin[1], s, trace)
    [] requiredPin = "ONLY_OTP" ->
         IF ~Given(otp) THEN Raised("No otp pin given", trace, s)
         ELSE validateOtpToken(s, payload.id, otp[1], t, lib, trace)
    [] requiredPin = "ANY" ->
         IF ~Given(pin) /\ ~Given(otp) THEN Raised("No pin specified", trace, s)
         ELSE IF Given(pin) THEN validateEmailToken(payload.pin, pin[1], s, trace)
         ELSE validateOtpToken(s, payload.id, otp[1], t, lib, trace)
    [] OTHER -> Passed(trace, s)

\* the switch on params.requiredPin, lines 82-98
pinPolicy(requiredPin, payload, pin, otp, s, t, lib, trace) ==
  CASE requiredPin = "ONLY_EMAIL" ->
         IF ~Given(pin) THEN Raised("No email pin given", trace, s)
         ELSE validateEmailToken(payload.pin, pin[1], s, trace)
    [] requiredPin = "ONLY_OTP" ->
         IF ~Given(otp) THEN Raised("No otp pin given", trace, s)
         ELSE validateOtpToken(s, payload.id, otp[1], t, lib, trace)
    [] requiredPin = "ANY" ->
         IF ~Given(pin) /\ ~Given(otp) THEN Raised("No pin specified", trace, s)
         ELSE LET email == IF Given(pin) THEN validateEmailToken(payload.pin, pin[1], s, trace)
                           ELSE Passed(trace, s)
              IN IF email.threw THEN email
                 ELSE IF Given(otp) THEN validateOtpToken(email.store, payload.id, otp[1], t, lib, email.trace)
                 ELSE email
    [] OTHER -> Passed(trace, s)

\* the try block without the signature check of line 73
tryBody_NoSignature(params, req, s, t, lib) ==
  IF req.headers = <<>> THEN [r |-> Raised("No header given", <<>>, s), attached |-> <<>>]
  ELSE LET headers == req.headers[1] IN
  IF ~Given(headers.auth)
    THEN [r |-> Raised("No authorization header given", <<>>, s), attached |-> <<>>]
  ELSE LET token == headers.auth[1] IN
  IF ~isBearerToken(token)
    THEN [r |-> Raised("JWT decode error", <<"token header">>, s), attached |-> <<>>]
  ELSE IF params.step # payloadType(token)
    THEN [r |-> Raised("Invalid step", <<"token header", "bearer ok", "signature ok">>, s),
          attached |-> <<>>]
  ELSE [r |-> pinPolicy(params.requiredPin, token.payload[1], headers.pin, headers.otp, s, t, lib,
                        <<"token header", "bearer ok", "signature ok", "step ok", "attach">>),
        attached |-> token.payload]

\* the try block with line 77 moved up, right after the structural check
tryBody_AttachEarly(params, req, s, t, lib) ==
  IF req.headers = <<>> THEN [r |-> Raised("No header given", <<>>, s), attached |-> <<>>]
  ELSE LET headers == req.headers[1] IN
  IF ~Given(headers.auth)
    THEN [r |-> Raised("No authorization header given", <<>>, s), attached |-> <<>>]
  ELSE LET token == headers.auth[1] IN
  IF ~isBearerToken(token)
    THEN [r |-> Raised("JWT decode error", <<"token header">>, s), attached |-> <<>>]
  ELSE IF ~isSignatureValid(token, secondarySecret)
    THEN [r |-> Raised("JWT signature error", <<"token header", "bearer ok", "attach">>, s),
          attached |-> token.payload]
  ELSE IF params.step # payloadType(token)
    THEN [r |-> Raised("Invalid step", <<"token header", "bearer ok", "attach", "signature ok">>, s),
          attached |-> token.payload]
  ELSE [r |-> pinPolicy(params.requiredPin, token.payload[1], headers.pin, headers.otp, s, t, lib,
                        <<"token header", "bearer ok", "attach", "signature ok", "step ok">>),
        attached |-> token.payload]

\* the try block without the step comparison of line 75
tryBody_NoStep(params, req, s, t, lib) ==
  IF req.headers = <<>> THEN [r |-> Raised("No header given", <<>>, s), attached |-> <<>>]
  ELSE LET headers == req.headers[1] IN
  IF ~Given(headers.auth)
    THEN [r |-> Raised("No authorization header given", <<>>, s), attached |-> <<>>]
  ELSE LET token == headers.auth[1] IN
  IF ~isBearerToken(token)
    THEN [r |-> Raised("JWT decode error", <<"token header">>, s), attached |-> <<>>]
  ELSE IF ~isSignatureValid(token, secondarySecret)
    THEN [r |-> Raised("JWT signature error", <<"token header", "bearer ok">>, s), attached |-> <<>>]
  ELSE [r |-> pinPolicy(params.requiredPin, token.payload[1], headers.pin, headers.otp, s, t, lib,
                        <<"token header", "bearer ok", "signature ok", "step ok", "attach">>),
        attached |-> token.payload]

\* the body of the try block, lines 64-99: what it raised, the payload it
\* attached to the request (<<>> when none) and the checks it went through
tryBody(params, req, s, t, lib) ==
  IF req.headers = <<>> THEN [r |-> Raised("No header given", <<>>, s), attached |-> <<>>]
  ELSE LET headers == req.headers[1] IN
  IF ~Given(headers.auth)
    THEN [r |-> Raised("No authorization header given", <<>>, s), attached |-> <<>>]
  ELSE LET token == headers.auth[1] IN
  IF ~isBearerToken(token)
    THEN [r |-> Raised("JWT decode error", <<"token header">>, s), attached |-> <<>>]
  ELSE IF ~isSignatureValid(token, secondarySecret)
    THEN [r |-> Raised("JWT signature error", <<"token header", "bearer ok">>, s), attached |-> <<>>]
  ELSE IF params.step # payloadType(token)
    THEN [r |-> Raised("Invalid step", <<"token header", "bearer ok", "signature ok">>, s),
          attached |-> <<>>]
  ELSE [r |-> pinPolicy(params.requiredPin, token.payload[1], headers.pin, headers.otp, s, t, lib,
                        <<"token header", "bearer ok", "signature ok", "step ok", "attach">>),
        attached |-> token.payload]

Allow == [kind |-> "return", value |-> TRUE]
HttpException(response, status, cause) ==
  [kind |-> "HttpException", response |-> response, status |-> status, cause |-> cause]

\* a catch block that hands the error's own message to the caller
catch_LeakCause(message) == HttpException(message, UNAUTHORIZED, message)

\* a catch block that lets the faults of validateOTP through
catch_Rethrow(message) ==
  IF message \in {NullDeref.message, OtplibFault.message}
    THEN Throw("TypeError", message)
    ELSE HttpException(NotAuthorized, UNAUTHORIZED, message)

\* the catch block, line 101
catch(message) == HttpException(NotAuthorized, UNAUTHORIZED, message)

\* a guard that applies a policy of its own to an operation that declares none
canActivate_DefaultPolicy(params, req, s, t, lib) ==
  LET b == tryBody(IF params = <<>> THEN [step |-> "reset", requiredPin |-> "ANY"] ELSE params[1],
                   req, s, t, lib)
  IN [out |-> IF b.r.threw THEN catch(b.r.message) ELSE Allow,
      attached |-> b.attached, trace |-> b.r.trace, store |-> b.r.store]

\* params is <<>> when the operation declares no policy
canActivate(params, req, s, t, lib) ==
  IF params = <<>> THEN [out |-> Allow, attached |-> <<>>, trace |-> <<>>, store |-> s]
  ELSE LET b == tryBody(params[1], req, s, t, lib) IN
       [out |-> IF b.r.threw THEN catch(b.r.message) ELSE Allow,
        attached |-> b.attached, trace |-> b.r.trace, store |-> b.r.store]

\* ------------------------------------------------------------------ state
Succeeded(out) == out.kind = "return" /\ out.error = NoError

ServiceCall(op, loginId, token, r) ==
  [op |-> op, loginId |-> loginId, token |-> token, out |-> r.out,
   pre |-> store, time |-> clock, rotatedBefore |-> rotated]

RequiredPin == {"ANY", "ONLY_EMAIL", "ONLY_OTP"}
Policies == {<<>>} \cup {<<[step |-> st, requiredPin |-> rp]>> : st \in Steps, rp \in RequiredPin}
Tokens == {Malformed} \cup
          {SignedToken(k, DynamicPayload(ty, id, pin)) :
             k \in SigningKeys, ty \in Steps, id \in LoginIds, pin \in Pins}
HeaderSets == {<<>>} \cup
              {<<[auth |-> a, pin |-> p, otp |-> o]>> :
                 a \in {NoHeader} \cup {Header(tk) : tk \in Tokens},
                 p \in {NoHeader} \cup {Header(x) : x \in Pins},
                 o \in {NoHeader} \cup {Header(c) : c \in Codes}}

NoRequest == [status |-> "none"]

\* the callers whose createOTP / updateOTP calls can be in progress together
Callers == {"a", "b"}
Idle == [pc |-> "idle"]

Init ==
  /\ \E ids \in SUBSET LoginIds :
       \E f \in [ids -> Secrets \cup {Null}] :
         store = [i \in ids |-> LoginEntity(i, f[i])]
  /\ clock = 0
  /\ otplibThrows \in BOOLEAN
  /\ last = [op |-> "init"]
  /\ created = [i \in LoginIds |-> Null]
  /\ rotated = [i \in LoginIds |-> <<>>]
  /\ request = NoRequest
  /\ calls = [p \in Callers |-> Idle]

CreateOTP ==
  \E loginId \in LoginIds, fresh \in Secrets :
    LET r == createOTP(store, loginId, fresh) IN
    /\ store' = r.store
    /\ last' = ServiceCall("createOTP", loginId, 0, r)
    /\ created' = IF Succeeded(r.out)
                     THEN [created EXCEPT ![loginId] = r.out.value.secret]
                     ELSE created
    /\ UNCHANGED <<clock, otplibThrows, rotated, request, calls>>

UpdateOTP ==
  \E loginId \in LoginIds, token \in Codes, fresh \in Secrets :
    LET r == updateOTP(store, loginId, token, clock, otplibThrows, fresh) IN
    /\ store' = r.store
    /\ last' = ServiceCall("updateOTP", loginId, token, r)
    /\ created' = IF Succeeded(r.out) THEN [created EXCEPT ![loginId] = Null] ELSE created
    /\ rotated' = IF Succeeded(r.out)
                     THEN [rotated EXCEPT ![loginId] =
                             <<[old |-> store[loginId].otpToken, new |-> r.out.value.secret]>>]
                     ELSE rotated
    /\ UNCHANGED <<clock, otplibThrows, request, calls>>

ValidateOTP ==
  \E loginId \in LoginIds, token \in Codes :
    LET r == validateOTP(store, loginId, token, clock, otplibThrows) IN
    /\ store' = r.store
    /\ last' = ServiceCall("validateOTP", loginId, token, r)
    /\ UNCHANGED <<clock, otplibThrows, created, rotated, request, calls>>

RemoveOTP ==
  \E loginId \in LoginIds, token \in Codes :
    LET r == removeOTP(store, loginId, token, clock, otplibThrows) IN
    /\ store' = r.store
    /\ last' = ServiceCall("removeOTP", loginId, token, r)
    /\ UNCHANGED <<clock, otplibThrows, created, rotated, request, calls>>

\* the time step of the TOTP algorithm advances
Tick ==
  /\ clock < MaxTime
  /\ clock' = clock + 1
  /\ UNCHANGED <<store, otplibThrows, last, created, rotated, request, calls>>

\* the framework dispatches a request to an operation; params is the policy
\* the reflector finds for it
Arrive ==
  /\ request = NoRequest
  /\ \E params \in Policies, headers \in HeaderSets :
       request' = [status |-> "received", params |-> params, headers |-> headers,
                   processedDynamicPayloadDTO |-> <<>>]
  /\ UNCHANGED <<store, clock, otplibThrows, last, created, rotated, calls>>

CanActivate ==
  /\ request.status = "received"
  /\ LET g == canActivate(request.params, request, store, clock, otplibThrows) IN
       /\ request' = [request EXCEPT !.status = "decided",
                                  !.processedDynamicPayloadDTO = g.attached]
                    @@ [out |-> g.out, trace |-> g.trace, time |-> clock, pre |-> store]
       /\ store' = g.store
  /\ UNCHANGED <<clock, otplibThrows, last, created, rotated, calls>>

\* the handler ran or the rejection was sent: the request context is dropped
Finish ==
  /\ request.status = "decided"
  /\ request' = NoRequest
  /\ UNCHANGED <<store, clock, otplibThrows, last, created, rotated, calls>>

Next == CreateOTP \/ UpdateOTP \/ ValidateOTP \/ RemoveOTP \/ Tick

Spec == Init /\ [][Next]_vars

GuardNext == Arrive \/ CanActivate \/ Finish \/ Tick

GuardSpec == Init /\ [][GuardNext]_vars

\* ---- createOTP and updateOTP as they run among other calls: each is
\* suspended at await findOne, and resumes with the entity it read
Found(op, loginId, token) ==
  [pc |-> "found", op |-> op, loginId |-> loginId, token |-> token,
   login |-> findOne(store, loginId)]

\* the call has returned: its outcome, and the entity that was stored under
\* its login id just before it resumed
Returned(call, r) ==
  [call EXCEPT !.pc = "returned"]
    @@ [out |-> r.out, stored |-> findOne(store, call.loginId)]

CreateFind(p) ==
  /\ calls[p] = Idle
  /\ \E loginId \in LoginIds :
       calls' = [calls EXCEPT ![p] = Found("createOTP", loginId, 0)]
  /\ UNCHANGED <<store, clock, otplibThrows, last, created, rotated, request>>

CreateResume(p) ==
  /\ calls[p].pc = "found" /\ calls[p].op = "createOTP"
  /\ \E fresh \in Secrets :
       LET r == createOTPAfterFind(store, calls[p].login, fresh) IN
       /\ store' = r.store
       /\ calls' = [calls EXCEPT ![p] = Returned(calls[p], r)]
  /\ UNCHANGED <<clock, otplibThrows, last, created, rotated, request>>

UpdateFind(p) ==
  /\ calls[p] = Idle
  /\ \E loginId \in LoginIds, token \in Codes :
       calls' = [calls EXCEPT ![p] = Found("updateOTP", loginId, token)]
  /\ UNCHANGED <<store, clock, otplibThrows, last, created, rotated, request>>

UpdateResume(p) ==
  /\ calls[p].pc = "found" /\ calls[p].op = "updateOTP"
  /\ \E fresh \in Secrets :
       LET r == updateOTPAfterFind(store, calls[p].login, calls[p].token, clock, otplibThrows, fresh) IN
       /\ store' = r.store
       /\ calls' = [calls EXCEPT ![p] = Returned(calls[p], r)]
  /\ UNCHANGED <<clock, otplibThrows, last, created, rotated, request>>

\* the caller has taken the result
Forget(p) ==
  /\ calls[p].pc = "returned"
  /\ calls' = [calls EXCEPT ![p] = Idle]
  /\ UNCHANGED <<store, clock, otplibThrows, last, created, rotated, request>>

ConcNext ==
  \E p \in Callers :
    CreateFind(p) \/ CreateResume(p) \/ UpdateFind(p) \/ UpdateResume(p) \/ Forget(p)

ConcSpec == Init /\ [][ConcNext]_vars

\* the operations that only read the login store: direct calls of validateOTP
\* and requests going through the guard, one after the other
ReadNext == (request = NoRequest /\ ValidateOTP) \/ Arrive \/ CanActivate \/ Finish

ReadSpec == Init /\ [][ReadNext]_vars

\* ================================================================ properties
\* what the formulas below say about the call that ran last
LoginExisted == last.loginId \in DOMAIN last.pre
SecretBefore == last.pre[last.loginId].otpToken

\* what they say about the request the guard decided
Protected == request.status = "decided" /\ request.params # <<>>
Policy == request.params[1]
Rejected == /\ request.out.kind = "HttpException"
            /\ request.out.status = UNAUTHORIZED
            /\ request.out.response = NotAuthorized
HasToken == request.headers # <<>> /\ Given(request.headers[1].auth)
TokenOf == request.headers[1].auth[1]
PayloadOf == TokenOf.payload[1]
PinHeader == request.headers[1].pin
OtpHeader == request.headers[1].otp
EmailProofValid == Given(PinHeader) /\ validatePin(PayloadOf.pin, PinHeader[1])
OtpProofValid ==
  /\ Given(OtpHeader)
  /\ LET r == validateOTP(store, PayloadOf.id, OtpHeader[1], request.time, otplibThrows).out
     IN r.kind = "return" /\ r.value.b
GoodToken == /\ HasToken
             /\ isBearerToken(TokenOf)
             /\ isSignatureValid(TokenOf, secondarySecret)
             /\ payloadType(TokenOf) = Policy.step

\* C1: a request to an operation with a policy whose decoded token payload has
\* a type other than the policy's step is rejected, whatever the signature,
\* the requiredPin and the pin headers.
C1_StepMismatchRejected ==
  (Protected /\ HasToken /\ isBearerToken(TokenOf) /\ payloadType(TokenOf) # Policy.step)
    => Rejected

\* a correctly signed token for another step, with both proofs valid, was rejected
C1_Witness ==
  /\ Protected /\ HasToken /\ isBearerToken(TokenOf)
  /\ isSignatureValid(TokenOf, secondarySecret)
  /\ payloadType(TokenOf) # Policy.step
  /\ EmailProofValid /\ OtpProofValid
  /\ Rejected

\* C2: validateOTP on an existing login whose otpToken is null returns
\* [false, null]; it does not fault.
C2_NullSecretIsInvalid ==
  (last.op = "validateOTP" /\ LoginExisted /\ SecretBefore = Null)
    => last.out = Return(BoolValue(FALSE), NoError)

\* C3: after removeOTP returned success the login's otpToken is null.
C3_RemoveClearsSecret ==
  (last.op = "removeOTP" /\ LoginExisted /\ Succeeded(last.out))
    => store[last.loginId].otpToken = Null

\* C4: createOTP on a login whose otpToken is set returns
\* [null, LOGIN_ALREADY_HAS_OTP] and leaves every login record as it was.
C4_CreateOnProvisioned ==
  (last.op = "createOTP" /\ LoginExisted /\ SecretBefore # Null)
    => /\ last.out = Return(NullValue, LOGIN_ALREADY_HAS_OTP)
       /\ store = last.pre

\* createOTP was refused on a provisioned login while another login exists
C4_Witness ==
  /\ last.op = "createOTP" /\ LoginExisted /\ SecretBefore # Null
  /\ last.out.error = LOGIN_ALREADY_HAS_OTP
  /\ \E other \in DOMAIN store : other # last.loginId

\* the proof code of the last call was not valid against the secret stored before it
InvalidProof ==
  SecretBefore = Null \/ last.token # totp(SecretBefore, last.time)

\* C5: updateOTP and removeOTP with a proof code that is not valid against the
\* stored otpToken (a null otpToken included) return [null, TOKEN_OTP_INVALID]
\* and leave the store unchanged.
C5_InvalidProofNoMutation ==
  (last.op \in {"updateOTP", "removeOTP"} /\ LoginExisted /\ InvalidProof)
    => /\ last.out = Return(NullValue, TOKEN_OTP_INVALID)
       /\ store = last.pre

\* the last successful rotation of the login the last call was about, as it
\* stood before that call
Rotation == last.rotatedBefore[last.loginId][1]
AfterRotation ==
  /\ last.op \in {"validateOTP", "updateOTP", "removeOTP"}
  /\ last.rotatedBefore[last.loginId] # <<>>
Accepted ==
  /\ last.out.kind = "return"
  /\ last.out.error = NoError
  /\ last.op = "validateOTP" => last.out.value.b
RefusedAsInvalid ==
  IF last.op = "validateOTP"
    THEN last.out = Return(BoolValue(FALSE), NoError)
    ELSE last.out = Return(NullValue, TOKEN_OTP_INVALID)

\* C6: after a successful updateOTP, validateOTP, updateOTP and removeOTP
\* accept only codes of the secret that updateOTP returned; a code that is
\* valid against the previous secret and not against the returned one is
\* refused ([false, null] by validateOTP, TOKEN_OTP_INVALID by the others).
C6_OldCodeRejected ==
  AfterRotation =>
    /\ Accepted => last.token = totp(Rotation.new, last.time)
    /\ (last.token = totp(Rotation.old, last.time) /\ last.token # totp(Rotation.new, last.time))
         => RefusedAsInvalid

\* a code of the previous secret was refused after the rotation
C6_Witness ==
  /\ AfterRotation
  /\ last.token = totp(Rotation.old, last.time)
  /\ last.token # totp(Rotation.new, last.time)
  /\ RefusedAsInvalid

\* C7: while no updateOTP has succeeded since createOTP returned a secret for
\* a login, validateOTP with the code of that secret for the current time step
\* returns [true, null].
C7_CreateValidateRoundTrip ==
  (/\ last.op = "validateOTP"
   /\ created[last.loginId] # Null
   /\ last.token = totp(created[last.loginId], last.time))
    => last.out = Return(BoolValue(TRUE), NoError)

\* the code of a secret that createOTP returned was accepted at a later time step
C7_Witness ==
  /\ last.op = "validateOTP"
  /\ created[last.loginId] # Null
  /\ last.token = totp(created[last.loginId], last.time)
  /\ last.time > 0
  /\ last.out = Return(BoolValue(TRUE), NoError)

\* C8: validateOTP and removeOTP for a login id that is not in the store
\* return [null, LOGIN_NOT_FOUND] and leave the store unchanged.
C8_MissingLoginNotFound ==
  (last.op \in {"validateOTP", "removeOTP"} /\ ~LoginExisted)
    => /\ last.out = Return(NullValue, LOGIN_NOT_FOUND)
       /\ store = last.pre

\* C9: a request to an operation with a policy ends either allowed or in the
\* one unauthorized rejection (same status, same message), whatever made it
\* fail; the guard returns nothing else and lets no other error out.
C9_SingleRejection ==
  Protected => (request.out = Allow \/ Rejected)

\* a fault of validateOTP (the token's login is not in the store) was turned
\* into the unauthorized rejection
C9_Witness ==
  /\ Protected /\ Rejected
  /\ request.out.cause = NullDeref.message
  /\ "validateOTP" \in {request.trace[i] : i \in DOMAIN request.trace}

\* C10: under requiredPin = ANY with a well-formed, correctly signed token of
\* the policy's step, the guard allows iff a pin header or an OTP header is
\* given and every given proof validates; with the email pin alone
\* validateOTP is not called.
C10_AnyPolicy ==
  (Protected /\ Policy.requiredPin = "ANY" /\ GoodToken) =>
    /\ request.out = Allow <=>
         /\ Given(PinHeader) \/ Given(OtpHeader)
         /\ Given(PinHeader) => EmailProofValid
         /\ Given(OtpHeader) => OtpProofValid
    /\ request.out # Allow => Rejected
    /\ (Given(PinHeader) /\ ~Given(OtpHeader)) =>
         "validateOTP" \notin {request.trace[i] : i \in DOMAIN request.trace}

\* both proofs were given, the email pin was right, the OTP was wrong: rejected
C10_Witness ==
  /\ Protected /\ Policy.requiredPin = "ANY" /\ GoodToken
  /\ EmailProofValid /\ Given(OtpHeader) /\ ~OtpProofValid
  /\ PayloadOf.id \in DOMAIN store
  /\ store[PayloadOf.id].otpToken # Null
  /\ Rejected

\* ---- further vocabulary for the requests the guard decided
TraceHas(e) == e \in {request.trace[i] : i \in DOMAIN request.trace}
Pos(e) == CHOOSE i \in DOMAIN request.trace : request.trace[i] = e
Attached == request.processedDynamicPayloadDTO
WithoutPin(req) == [req EXCEPT !.headers = <<[req.headers[1] EXCEPT !.pin = NoHeader]>>]
WithoutOtp(req) == [req EXCEPT !.headers = <<[req.headers[1] EXCEPT !.otp = NoHeader]>>]
EmptyStore == [i \in {} |-> NullLogin]
\* what the caller of the operation receives
Delivered(out) ==
  IF out.kind = "HttpException"
    THEN [kind |-> out.kind, status |-> out.status, response |-> out.response]
    ELSE [kind |-> out.kind, status |-> 0, response |-> ""]

\* C11: under requiredPin = ONLY_OTP with a well-formed, correctly signed
\* token of the policy's step, the guard allows iff the OTP header is given
\* and validateOTP(payload.id, otp) reports it valid; the email-pin header is
\* not validated and the outcome is the one of the same request without it.
C11_OnlyOtpPolicy ==
  (Protected /\ Policy.requiredPin = "ONLY_OTP" /\ GoodToken) =>
    /\ request.out = Allow <=> OtpProofValid
    /\ request.out # Allow => Rejected
    /\ ~TraceHas("validatePin")
    /\ request.out =
         canActivate(request.params, WithoutPin(request), request.pre, request.time, otplibThrows).out

\* a right email pin without an OTP header was rejected under ONLY_OTP
C11_Witness ==
  /\ Protected /\ Policy.requiredPin = "ONLY_OTP" /\ GoodToken
  /\ EmailProofValid /\ ~Given(OtpHeader)
  /\ Rejected

\* C12: under requiredPin = ONLY_EMAIL with a well-formed, correctly signed
\* token of the policy's step, the guard allows iff the email-pin header is
\* given and validatePin accepts it against payload.pin; validateOTP is not
\* called and the outcome is the one of the same request without an OTP
\* header over an empty login store.
C12_OnlyEmailPolicy ==
  (Protected /\ Policy.requiredPin = "ONLY_EMAIL" /\ GoodToken) =>
    /\ request.out = Allow <=> EmailProofValid
    /\ request.out # Allow => Rejected
    /\ ~TraceHas("validateOTP")
    /\ request.out =
         canActivate(request.params, WithoutOtp(request), EmptyStore, request.time, otplibThrows).out

\* a right email pin was allowed under ONLY_EMAIL although the OTP sent with
\* it would not validate
C12_Witness ==
  /\ Protected /\ Policy.requiredPin = "ONLY_EMAIL" /\ GoodToken
  /\ EmailProofValid /\ Given(OtpHeader) /\ ~OtpProofValid
  /\ DOMAIN store # {}
  /\ request.out = Allow

\* the token names a login that is not in the store and the policy makes the
\* guard check an OTP
MissingLoginOtp ==
  /\ Protected /\ GoodToken
  /\ PayloadOf.id \notin DOMAIN store
  /\ \/ Policy.requiredPin = "ONLY_OTP"
     \/ Policy.requiredPin = "ANY" /\ Given(OtpHeader)

\* C13: such a request is rejected, and what the caller receives is what it
\* receives when the login exists and the OTP is wrong for its secret.
C13_MissingLoginIndistinguishable ==
  MissingLoginOtp =>
    /\ Rejected
    /\ \A sec \in Secrets :
         (Given(OtpHeader) /\ OtpHeader[1] # totp(sec, request.time)) =>
           Delivered(request.out) =
             Delivered(canActivate(request.params, request,
                                   save(store, LoginEntity(PayloadOf.id, sec)),
                                   request.time, otplibThrows).out)

\* the OTP of a token whose login is missing was checked under ONLY_OTP, the
\* lookup faulted, and the request got the unauthorized rejection
C13_Witness ==
  /\ MissingLoginOtp /\ Policy.requiredPin = "ONLY_OTP" /\ Given(OtpHeader)
  /\ TraceHas("validateOTP")
  /\ request.out.cause = NullDeref.message
  /\ Rejected

\* C16: a request to an operation without a policy is allowed with no check
\* made, no payload attached and the store untouched, whatever it contains.
C16_NoPolicyAllows ==
  (request.status = "decided" /\ request.params = <<>>) =>
    /\ request.out = Allow
    /\ request.trace = <<>>
    /\ Attached = <<>>
    /\ store = request.pre

\* a request with a malformed token and an OTP header was allowed on an
\* operation without a policy
C16_Witness ==
  /\ request.status = "decided" /\ request.params = <<>>
  /\ HasToken /\ ~isBearerToken(TokenOf) /\ Given(OtpHeader)
  /\ request.out = Allow

\* C17: a request to an operation with a policy is allowed only after, in
\* this order, the token header was found, the structural check, the
\* signature check and the step comparison passed, and an email pin or an OTP
\* was validated.
C17_AllowedOnlyAfterChecks ==
  (Protected /\ Policy.requiredPin \in RequiredPin /\ request.out = Allow) =>
    /\ HasToken
    /\ isBearerToken(TokenOf)
    /\ isSignatureValid(TokenOf, secondarySecret)
    /\ payloadType(TokenOf) = Policy.step
    /\ EmailProofValid \/ OtpProofValid
    /\ TraceHas("token header") /\ TraceHas("bearer ok")
    /\ TraceHas("signature ok") /\ TraceHas("step ok")
    /\ TraceHas("email ok") \/ TraceHas("otp ok")
    /\ Pos("token header") < Pos("bearer ok")
    /\ Pos("bearer ok") < Pos("signature ok")
    /\ Pos("signature ok") < Pos("step ok")
    /\ \A e \in {"email ok", "otp ok"} : TraceHas(e) => Pos("step ok") < Pos(e)

\* a request was allowed under ANY on the OTP alone
C17_Witness ==
  /\ Protected /\ Policy.requiredPin = "ANY" /\ request.out = Allow
  /\ ~Given(PinHeader) /\ OtpProofValid
  /\ TraceHas("otp ok")

\* C18: a request carries an attached payload only if its token passed the
\* structural check, the signature check and the step comparison (and the
\* payload is the token's); one rejected at or before the step comparison
\* carries none; one rejected at the pin stage keeps it.
C18_PayloadAttachedAfterChecks ==
  request.status # "none" =>
    /\ Attached # <<>> => (Protected /\ GoodToken /\ Attached = TokenOf.payload)
    /\ (Protected /\ ~GoodToken) => (Rejected /\ Attached = <<>>)
    /\ (Protected /\ GoodToken) => Attached = TokenOf.payload
    /\ (request.status = "decided" /\ TraceHas("attach")) =>
         (TraceHas("step ok") /\ Pos("signature ok") < Pos("step ok") /\ Pos("step ok") < Pos("attach"))

\* a request rejected for its pin carries the payload of its token
C18_Witness ==
  /\ Protected /\ GoodToken /\ Rejected
  /\ request.out.cause = "Invalid email pin"
  /\ Attached = TokenOf.payload

\* C19: no call of validateOTP and no run of canActivate, allowed or
\* rejected, changes a login record: the store after it is the store before.
C19_ReadOnly ==
  /\ last.op = "validateOTP" => store = last.pre
  /\ request.status = "decided" => store = request.pre

\* validateOTP accepted a code, and the guard allowed a request on an OTP it
\* had validateOTP accept; the store is as it was
C19_Witness ==
  /\ last.op = "validateOTP" /\ last.out = Return(BoolValue(TRUE), NoError)
  /\ Protected /\ request.out = Allow /\ TraceHas("otp ok")
  /\ store = last.pre /\ store = request.pre

\* ---- vocabulary for the calls that ran among other calls
ReturnedFrom(p, op) == calls[p].pc = "returned" /\ calls[p].op = op
SucceededCall(p, op) == ReturnedFrom(p, op) /\ Succeeded(calls[p].out)

\* C14: a createOTP that succeeds did not replace a stored secret (the login
\* had none just before the save), and of the createOTP calls for one login
\* at most one returns success.
C14_CreateNeverOverwrites ==
  /\ \A p \in Callers :
       SucceededCall(p, "createOTP") => calls[p].stored.otpToken = Null
  /\ \A p, q \in Callers :
       (/\ p # q
        /\ SucceededCall(p, "createOTP") /\ SucceededCall(q, "createOTP")
        /\ calls[p].loginId = calls[q].loginId) => FALSE

\* C15: updateOTP decides on the entity it read at findOne: a call whose
\* proof code is valid against the secret it read returns success with a new
\* secret, whatever was saved for the login while it was suspended. (So two
\* calls that read the same secret and present the same code both succeed.)
C15_RotationUnprotected ==
  \A p \in Callers :
    (/\ ReturnedFrom(p, "updateOTP")
     /\ calls[p].login # NullLogin
     /\ calls[p].login.otpToken # Null
     /\ calls[p].token = totp(calls[p].login.otpToken, clock))
      => /\ Succeeded(calls[p].out)
         /\ calls[p].out.value.tag = "SecretAndKeyUri"

\* two updateOTP calls for one login with the same proof code both read the
\* old secret, both returned success with different new secrets; the second
\* saved over a secret that was no longer the one it had read, and the first
\* caller holds a secret that is not the stored one
C15_Witness ==
  \E p, q \in Callers :
    /\ p # q
    /\ SucceededCall(p, "updateOTP") /\ SucceededCall(q, "updateOTP")
    /\ calls[p].loginId = calls[q].loginId
    /\ calls[p].token = calls[q].token
    /\ calls[p].login = calls[q].login
    /\ calls[p].out.value.secret # calls[q].out.value.secret
    /\ calls[p].stored = calls[p].login
    /\ calls[q].stored # calls[q].login
    /\ calls[q].stored.otpToken = calls[p].out.value.secret
    /\ store[calls[p].loginId].otpToken = calls[q].out.value.secret

====
